---- MODULE Spec2Model ----
(***************************************************************************)
(* Model of pysatNASA's CDAWeb support routines                            *)
(* (pysatNASA/instruments/methods/cdaweb.py) and of the instrument modules *)
(* that use them (cnofs_plp, formosat1_ivm).                               *)
(*                                                                         *)
(* One call of list_remote_files, download or load is made at a time.  The *)
(* variables hold the remote server, the arguments the running call was    *)
(* bound to, what the call requested and wrote, and how it ended.          *)
(***************************************************************************)
EXTENDS Integers, Sequences, FiniteSets, TLC

VARIABLES
    remote,     \* the CDAWeb server: [files: the dates with a data file,
                \*   sub: the directories of the files hold a sub-directory,
                \*   copies: each data file has a copy 'old_...' next to it]
    pc,         \* "idle", "download_loop", "returned" or "raised"
    fn,         \* the function called: "none", "list_remote_files", "download", "load"
    frame,      \* the arguments and local variables of the call
    exc,        \* the exception the call ended with: [type, msg]
    ret,        \* the value the call returned
    requested,  \* the URLs requested with requests.get during the call, in order
    written     \* the local files written during the call, in order

vars == <<remote, pc, fn, frame, exc, ret, requested, written>>

-----------------------------------------------------------------------------
(* Bounds of the model.                                                    *)

\* the last day of the modelled time span; days are numbered from 0
LastDate == 4
\* the largest number of data files on the server
MaxFiles == 2
\* an exception of requests may hit one of the first MaxFail requests of a call
MaxFail == 1
\* the largest number of dates in download's date_array
MaxDates == 2

-----------------------------------------------------------------------------
(* Python values.                                                          *)

\* None, as an argument that is a string or a path
None == "None"
\* None, as an argument that is a date
NoDate == -1

NoExc == [type |-> "none", msg |-> <<>>]

Raise(type, msg) == [type |-> type, msg |-> msg]

\* requests.exceptions: the classes that `except ConnectionError` catches
ConnectionErrorTypes == {"ConnectionError", "ConnectTimeout"}

-----------------------------------------------------------------------------
(* The calendar: a year of the model has the months of MonthLengths.       *)
(* datetime values are day numbers; year, month and day are decoded from   *)
(* them as datetime.year, .month and .day are.                             *)

MonthLengths == <<2, 1>>

RECURSIVE SumTo(_, _)
SumTo(s, n) == IF n = 0 THEN 0 ELSE s[n] + SumTo(s, n - 1)

DaysPerYear == SumTo(MonthLengths, Len(MonthLengths))

Dates == 0..LastDate

Year(d) == d \div DaysPerYear

DayOfYear(d) == d % DaysPerYear

Month(d) ==
    CHOOSE m \in 1..Len(MonthLengths) :
        /\ SumTo(MonthLengths, m - 1) <= DayOfYear(d)
        /\ DayOfYear(d) < SumTo(MonthLengths, m)

Day(d) == DayOfYear(d) - SumTo(MonthLengths, Month(d) - 1) + 1

MakeDate(y, m, dd) == y * DaysPerYear + SumTo(MonthLengths, m - 1) + dd - 1

IsMonthEnd(d) == Day(d) = MonthLengths[Month(d)]

IsYearEnd(d) == DayOfYear(d) = DaysPerYear - 1

Min(a, b) == IF a <= b THEN a ELSE b

\* d + pds.DateOffset(months=1): the same day of the next month, clipped to its length
AddMonth(d) ==
    LET m == Month(d)
        ny == IF m = Len(MonthLengths) THEN Year(d) + 1 ELSE Year(d)
        nm == IF m = Len(MonthLengths) THEN 1 ELSE m + 1
    IN  MakeDate(ny, nm, Min(Day(d), MonthLengths[nm]))

\* d + pds.DateOffset(years=1)
AddYear(d) == MakeDate(Year(d) + 1, Month(d), Day(d))

RECURSIVE SortedSeq(_)
SortedSeq(S) ==
    IF S = {} THEN <<>>
    ELSE LET lo == CHOOSE x \in S : \A y \in S : x <= y
         IN  <<lo>> \o SortedSeq(S \ {lo})

\* pds.date_range(start, end, freq='M' or 'Y'): the month or year ends in [start, end]
date_range(start, end, freq) ==
    SortedSeq({t \in start..end : IF freq = "M" THEN IsMonthEnd(t) ELSE IsYearEnd(t)})

-----------------------------------------------------------------------------
(* Filename formats and the instruments' supported_tags.                   *)

cnofs_plp_fname == "cnofs_plp_plasma_1sec_{year:04d}{month:02d}{day:02d}_v01.cdf"

formosat1_ivm_fname == "rs_k0_ipei_{year:04d}{month:02d}{day:02d}_v{version:02d}.cdf"

\* a format string 'dir/file', as os.path.split leaves it
Fmt(dir, file) == [dir |-> dir, file |-> file]

cnofs_plp_basic_tag ==
    [dir |-> "/pub/data/cnofs/plp/plasma_1sec",
     remote_fname |-> Fmt("{year:4d}", cnofs_plp_fname),
     local_fname |-> Fmt("", cnofs_plp_fname)]

cnofs_plp_supported_tags == [i \in {""} |-> [t \in {""} |-> cnofs_plp_basic_tag]]

formosat1_ivm_basic_tag ==
    [remote_dir |-> "/pub/data/formosat-rocsat/formosat-1/ipei/{year:4d}/",
     fname |-> formosat1_ivm_fname]

formosat1_ivm_download_tags == [i \in {""} |-> [t \in {""} |-> formosat1_ivm_basic_tag]]

\* the documented shape of supported_tags with other directory formats:
\* files directly under 'dir', and files under 'dir'/year/month
flat_supported_tags ==
    [i \in {""} |-> [t \in {""} |->
        [dir |-> "/pub/data/flat",
         remote_fname |-> Fmt("", cnofs_plp_fname),
         local_fname |-> Fmt("", cnofs_plp_fname)]]]

monthly_supported_tags ==
    [i \in {""} |-> [t \in {""} |->
        [dir |-> "/pub/data/monthly",
         remote_fname |-> Fmt("{year:4d}/{month:02d}", cnofs_plp_fname),
         local_fname |-> Fmt("", cnofs_plp_fname)]]]

SupportedTags ==
    {cnofs_plp_supported_tags, formosat1_ivm_download_tags,
     flat_supported_tags, monthly_supported_tags}

\* futils.construct_searchstring_from_format(format_dir)['keys']
search_keys(format_dir) ==
    CASE format_dir = "" -> <<>>
      [] format_dir = "{year:4d}" -> <<"year">>
      [] format_dir = "{year:4d}/{month:02d}" -> <<"year", "month">>

InSeq(x, s) == \E i \in 1..Len(s) : s[i] = x

\* supported_tags[inst_id][tag] raises KeyError
LookupFails(supported_tags, inst_id, tag) ==
    \/ inst_id \notin DOMAIN supported_tags
    \/ tag \notin DOMAIN supported_tags[inst_id]

-----------------------------------------------------------------------------
(* The remote server.  A link of a directory listing is the href of an <a> *)
(* tag: slashes is href.count('/'), name is the text of the href with the  *)
(* date fields taken out, y, m, d are the date fields written in it and    *)
(* prefix is what the href has in front of the name.                       *)

Href(slashes, name, y, m, d) ==
    [slashes |-> slashes, prefix |-> "", name |-> name, y |-> y, m |-> m, d |-> d]

\* 'cnofs_plp_plasma_1sec_YYYYMMDD_v01.cdf'
FileHref(name, date) == Href(0, name, Year(date), Month(date), Day(date))

\* 'old_cnofs_plp_plasma_1sec_YYYYMMDD_v01.cdf', a copy kept next to the file
CopyHref(name, date) == [FileHref(name, date) EXCEPT !.prefix = "old_"]

\* 'YYYY/', 'MM/' and 'sub/'
YearDir(y) == Href(1, "year", y, 0, 0)
MonthDir(m) == Href(1, "month", 0, m, 0)
SubDir == Href(1, "sub", 0, 0, 0)

\* the link to the parent directory, '/pub/data/', and a file that is no data file
ParentHref == Href(2, "parent", 0, 0, 0)
OtherHref == Href(0, "SHA1SUM", 0, 0, 0)

GoodSite == "https://cdaweb.gsfc.nasa.gov"
BadSite == "http:/"

\* the number of directory levels between 'dir' and the data files on the server
ServerDepth(dir) ==
    CASE dir = "/pub/data/cnofs/plp/plasma_1sec" -> 1
      [] dir = "/pub/data/monthly" -> 2
      [] OTHER -> 0

Url(site, dir, path) == [site |-> site, dir |-> dir, path |-> path]

\* the dates of the files stored under the directory `path`
FilesUnder(rem, depth, path) ==
    {f \in rem.files :
        /\ Len(path) >= 1 /\ depth >= 1 => path[1] = YearDir(Year(f))
        /\ Len(path) >= 2 /\ depth >= 2 => path[2] = MonthDir(Month(f))}

\* the file links of a directory with the files of `dates`
RECURSIVE FileLinks(_, _)
FileLinks(dates, copies) ==
    IF dates = <<>> THEN <<>>
    ELSE <<FileHref(cnofs_plp_fname, Head(dates))>>
         \o (IF copies THEN <<CopyHref(cnofs_plp_fname, Head(dates))>> ELSE <<>>)
         \o FileLinks(Tail(dates), copies)

\* the links of the page the server returns for url (no links on a 404 page)
Links(rem, url) ==
    LET depth == ServerDepth(url.dir)
        path == url.path
        under == FilesUnder(rem, depth, path)
        fileLinks == FileLinks(SortedSeq(under), rem.copies)
        yearLinks == SortedSeq({Year(f) : f \in under})
        monthLinks == SortedSeq({Month(f) : f \in under})
    IN  IF Len(path) > 0 /\ under = {} THEN <<>>
        ELSE IF Len(path) < depth
             THEN <<ParentHref>> \o (IF Len(path) = 0
                                     THEN [i \in DOMAIN yearLinks |-> YearDir(yearLinks[i])]
                                     ELSE [i \in DOMAIN monthLinks |-> MonthDir(monthLinks[i])])
        ELSE IF Len(path) = depth
             THEN <<ParentHref>> \o fileLinks \o <<OtherHref>>
                  \o (IF rem.sub THEN <<SubDir>> ELSE <<>>)
        ELSE IF Len(path) = depth + 1 /\ path[Len(path)] = SubDir /\ rem.sub
             THEN <<ParentHref, OtherHref>>
        ELSE <<>>

\* futils.parse_fixed_width_filenames and process_parsed_filenames: the date of a file name
ParseDate(href) == MakeDate(href.y, href.m, href.d)

-----------------------------------------------------------------------------
(* list_remote_files.                                                      *)

\* format_dir.format(year=time.year, month=time.month), as the directories of a path
format_subdir(format_dir, time) ==
    CASE format_dir = "{year:4d}" -> <<YearDir(Year(time))>>
      [] format_dir = "{year:4d}/{month:02d}" -> <<YearDir(Year(time)), MonthDir(Month(time))>>
      [] OTHER -> <<>>

\* the '' that remote_dirs[0] holds
EmptyDir == Href(0, "", 0, 0, 0)

\* '/'.join((top_url.strip('/'), directory))
JoinUrl(top_url, directory) ==
    IF directory = EmptyDir THEN top_url
    ELSE [top_url EXCEPT !.path = Append(@, directory)]

\* no connection trouble, or an exception of requests at the at-th request of the call
NoFail == [at |-> 0, type |-> "none"]

RequestErrorTypes == ConnectionErrorTypes \cup {"ReadTimeout"}

Fails == {NoFail} \cup [at : 1..MaxFail, type : RequestErrorTypes]

\* requests.get(url), the n-th request of the call: "ok" or the exception raised
Get(url, n, fail) ==
    IF url.site = BadSite THEN "ConnectionError"
    ELSE IF fail.at = n THEN fail.type
    ELSE "ok"

OrigMsg == "Max retries exceeded with url"

HelpMsg ==
    <<"pysat -> Request potentially", "exceeds the server limit. Please try",
      "again using a smaller data range.">>

\* lines 731-734: link['href'].count(target) is not 0 for any target, the
\* blocks of text of the file format; a prefix in front of the name is no obstacle
MatchesTargets(link, format_str) == link.name = format_str

\* lines 725-736: the links of one page
RECURSIVE ScanLinks(_, _, _, _, _, _)
ScanLinks(st, links, k, level, n_layers, target) ==
    IF k > Len(links) \/ st.exc # NoExc THEN st
    ELSE ScanLinks(IF links[k].slashes = 1
                   THEN IF level + 1 > n_layers
                        THEN [st EXCEPT !.exc = Raise("IndexError", <<"list index out of range">>)]
                        ELSE [st EXCEPT !.remote_dirs[level + 2] = Append(@, links[k])]
                   ELSE IF MatchesTargets(links[k], target)
                        THEN [st EXCEPT !.full_files = Append(@, links[k])]
                        ELSE st,
                   links, k + 1, level, n_layers, target)

\* lines 721-724: requests.get(temp_url), the next request of the call
Request(st, temp_url, level, ctx) ==
    IF Get(temp_url, Len(st.log) + 1, ctx.fail) # "ok"
    THEN [st EXCEPT !.log = Append(@, temp_url),
                    !.exc = Raise(Get(temp_url, Len(st.log) + 1, ctx.fail), <<OrigMsg>>)]
    ELSE ScanLinks([st EXCEPT !.log = Append(@, temp_url)], Links(ctx.rem, temp_url), 1,
                   level, ctx.n_layers, ctx.target)

\* line 720: the directories of one level (remote_dirs[level] is index level + 1)
RECURSIVE CrawlDirs(_, _, _, _)
CrawlDirs(st, k, level, ctx) ==
    IF st.exc # NoExc \/ k > Len(st.remote_dirs[level + 1]) THEN st
    ELSE CrawlDirs(Request(st, JoinUrl(ctx.top_url, st.remote_dirs[level + 1][k]), level, ctx),
                   k + 1, level, ctx)

\* line 719
RECURSIVE CrawlLevels(_, _, _)
CrawlLevels(st, level, ctx) ==
    IF st.exc # NoExc \/ level > ctx.n_layers THEN st
    ELSE CrawlLevels(CrawlDirs(st, 1, level, ctx), level + 1, ctx)

\* line 718
RECURSIVE CrawlTops(_, _, _, _)
CrawlTops(st, i, url_list, ctx) ==
    IF st.exc # NoExc \/ i > Len(url_list) THEN st
    ELSE CrawlTops(CrawlLevels(st, 0, [ctx EXCEPT !.top_url = url_list[i]]),
                   i + 1, url_list, ctx)

\* lines 737-740: a ConnectionError is raised again with the help text appended
AppendHelp(e) ==
    IF e.type \in ConnectionErrorTypes THEN Raise(e.type, e.msg \o HelpMsg) ELSE e

\* process_parsed_filenames: the files in the order of their dates
RECURSIVE SortByDate(_)
SortByDate(files) ==
    IF files = <<>> THEN <<>>
    ELSE LET lo == CHOOSE i \in 1..Len(files) :
                       \A j \in 1..Len(files) :
                           \/ ParseDate(files[i]) < ParseDate(files[j])
                           \/ ParseDate(files[i]) = ParseDate(files[j]) /\ i <= j
         IN  <<files[lo]>> \o
             SortByDate([j \in 1..(Len(files) - 1) |-> IF j < lo THEN files[j] ELSE files[j + 1]])

\* a selection that leaves out the files dated stop
DownselectBeforeStop(stored_list, start, stop) ==
    IF start # NoDate
    THEN LET Before(f) == /\ ParseDate(f) >= start
                          /\ (stop # NoDate => ParseDate(f) < stop)
         IN  SelectSeq(stored_list, Before)
    ELSE stored_list

\* lines 751-756
Downselect(stored_list, start, stop) ==
    IF start # NoDate
    THEN LET InRange(f) == /\ ParseDate(f) >= start
                           /\ (stop # NoDate => ParseDate(f) <= stop)
         IN  SelectSeq(stored_list, InRange)
    ELSE stored_list

\* a local variable that was assigned a value, and one that never was
Bound(v) == [bound |-> TRUE, value |-> v]
Unbound == [bound |-> FALSE, value |-> <<>>]

\* lines 699-716: the URLs to crawl, Unbound where no branch assigns url_list
UrlList(remote_url, format_dir, keys, start, stop) ==
    IF start = NoDate /\ stop = NoDate THEN Bound(<<remote_url>>)
    ELSE IF start # NoDate /\ InSeq("year", keys)
         THEN LET search_times ==
                      IF InSeq("month", keys)
                      THEN date_range(start, AddMonth(stop), "M")
                      ELSE date_range(start, AddYear(stop), "Y")
              IN  Bound([i \in 1..Len(search_times) |->
                      [remote_url EXCEPT !.path = format_subdir(format_dir, search_times[i])]])
         ELSE Unbound

\* the keyword parameters of list_remote_files (lines 584-590)
ListRemoteFilesParams ==
    {"tag", "inst_id", "remote_site", "supported_tags", "user", "password",
     "fake_daily_files_from_monthly", "two_digit_year_break", "delimiter",
     "start", "stop"}

start_given(a) == a.start # NoDate

\* dt.datetime.now(): no data file is dated after the time of the call
Now == LastDate

\* how a call of list_remote_files ends
Ended(a, exc_, ret_, log, locals) ==
    [args |-> a, exc |-> exc_, ret |-> ret_, log |-> log, locals |-> locals]

Locals(stop, url_list, full_files) ==
    [stop |-> stop, url_list |-> url_list, full_files |-> full_files]

NoLocals == Locals(NoDate, Unbound, <<>>)

\* lines 691-697: remote_dirs and full_files before the crawl
InitCrawl(n_layers) ==
    [remote_dirs |-> [l \in 1..(n_layers + 1) |-> IF l = 1 THEN <<EmptyDir>> ELSE <<>>],
     full_files |-> <<>>, log |-> <<>>, exc |-> NoExc]

\* lines 737-758: the crawl has ended in the state st
lrf_finish(a, stop, url_list, st) ==
    IF st.exc # NoExc
    THEN Ended(a, AppendHelp(st.exc), <<>>, st.log, Locals(stop, url_list, st.full_files))
    ELSE Ended(a, NoExc, Downselect(SortByDate(st.full_files), a.start, stop), st.log,
               Locals(stop, url_list, st.full_files))

\* lines 717-736: the crawl of url_list
lrf_crawl(rem, a, fail, remote_url, n_layers, format_str, stop, url_list) ==
    IF ~url_list.bound
    THEN Ended(a, Raise("UnboundLocalError", <<"url_list">>), <<>>, <<>>,
               Locals(stop, Unbound, <<>>))
    ELSE lrf_finish(a, stop, url_list,
                    CrawlTops(InitCrawl(n_layers), 1, url_list.value,
                              [rem |-> rem, top_url |-> remote_url, n_layers |-> n_layers,
                               target |-> format_str, fail |-> fail]))

\* lines 677-716: the format is split and the URLs to crawl are chosen
lrf_search(rem, a, fail, remote_url, format, stop) ==
    lrf_crawl(rem, a, fail, remote_url, Len(search_keys(format.dir)), format.file, stop,
              UrlList(remote_url, format.dir, search_keys(format.dir), a.start, stop))

\* lines 671-675: the keys of the dict of the (inst_id, tag) pair
lrf_keys(rem, a, fail, inst_dict) ==
    IF "dir" \notin DOMAIN inst_dict
    THEN Ended(a, Raise("KeyError", <<"dir">>), <<>>, <<>>, NoLocals)
    ELSE IF "remote_fname" \notin DOMAIN inst_dict
    THEN Ended(a, Raise("KeyError", <<"remote_fname">>), <<>>, <<>>, NoLocals)
    ELSE lrf_search(rem, a, fail, Url(a.remote_site, inst_dict.dir, <<>>),
                    inst_dict.remote_fname,
                    IF start_given(a) /\ a.stop = NoDate THEN Now ELSE a.stop)

\* lines 662-669: a None tag or inst_id is '' from here on
NoneToEmpty(x) == IF x = None THEN "" ELSE x

\* a lookup that lets the KeyError of an unknown pair through
lrf_lookup_keyerror(rem, a, fail, inst_id, tag) ==
    IF LookupFails(a.supported_tags, inst_id, tag)
    THEN Ended(a, Raise("KeyError", <<inst_id, tag>>), <<>>, <<>>, NoLocals)
    ELSE lrf_keys(rem, a, fail, a.supported_tags[inst_id][tag])

lrf_lookup(rem, a, fail, inst_id, tag) ==
    IF LookupFails(a.supported_tags, inst_id, tag)
    THEN Ended(a, Raise("ValueError", <<"inst_id / tag combo unknown.">>),
               <<>>, <<>>, NoLocals)
    ELSE lrf_keys(rem, a, fail, a.supported_tags[inst_id][tag])

\* list_remote_files called with the arguments a on the server rem;
\* a.site_kw is the keyword the remote address is passed with
list_remote_files(rem, a, fail) ==
    IF a.site_kw \notin ListRemoteFilesParams
    THEN Ended(a, Raise("TypeError", <<"unexpected keyword argument", a.site_kw>>),
               <<>>, <<>>, NoLocals)
    ELSE lrf_lookup(rem, a, fail, NoneToEmpty(a.inst_id), NoneToEmpty(a.tag))

-----------------------------------------------------------------------------
(* download.                                                               *)

\* remote_fname.format(year=date.year, month=date.month, day=date.day, ...):
\* the directories of the formatted name and its file name
format_fname(fmt, date) ==
    [dirs |-> format_subdir(fmt.dir, date), file |-> FileHref(fmt.file, date)]

\* the server holds the file that url names
FileExists(rem, url) ==
    LET p == url.path
        f == p[Len(p)]
        dirs == SubSeq(p, 1, Len(p) - 1)
    IN  /\ f.slashes = 0
        /\ f.name = cnofs_plp_fname
        /\ Len(dirs) = ServerDepth(url.dir)
        /\ \E date \in FilesUnder(rem, ServerDepth(url.dir), dirs) :
               \/ f = FileHref(f.name, date)
               \/ rem.copies /\ f = CopyHref(f.name, date)

\* the status codes the server may answer a file request with: a file of the
\* listing may be gone by the time it is requested
StatusCodes(rem, url) == IF FileExists(rem, url) THEN {200, 404} ELSE {404}

\* lines 547-549 and 579-581: ' '.join((exception, ...)) in the handler of a
\* RequestException fails, the items of a join must be strings
HandlerError == Raise("TypeError", <<"sequence item 0: expected str instance">>)

\* os.path.join(data_path, name) with data_path None
JoinError == Raise("TypeError", <<"expected str, bytes or os.PathLike object, not NoneType">>)

\* lines 512-513: the requested dates that the remote listing has, in ascending order
RemoteDates(remote_files, date_array) ==
    SortedSeq({ParseDate(remote_files[i]) : i \in 1..Len(remote_files)}
              \cap {date_array[i] : i \in 1..Len(date_array)})

\* the arguments download passes to list_remote_files (lines 506-510, 556-560)
ListCall(a, start, stop) ==
    [tag |-> a.tag, inst_id |-> a.inst_id, supported_tags |-> a.supported_tags,
     site_kw |-> "remote_site", remote_site |-> a.remote_site,
     start |-> start, stop |-> stop]

\* a loop over the files of one date that asks again for a file answered with 404
RECURSIVE GetFilesAgain(_, _, _, _, _, _)
GetFilesAgain(st, remote_files, k, base, status, ffail) ==
    IF k > Len(remote_files) THEN st
    ELSE GetFilesAgain(
             [st EXCEPT !.log = @ \o (IF status[k] = 404
                                      THEN <<[base EXCEPT !.path = Append(@, remote_files[k])],
                                             [base EXCEPT !.path = Append(@, remote_files[k])]>>
                                      ELSE <<[base EXCEPT !.path = Append(@, remote_files[k])]>>),
                        !.written = IF status[k] = 404 THEN @ ELSE Append(@, remote_files[k])],
             remote_files, k + 1, base, status, ffail)

\* lines 565-577: the files of one date with multi_file_day, requested one after
\* the other; status[k] is the answer to the k-th request, ffail the request
\* that raises a RequestException (0: none)
RECURSIVE GetFiles(_, _, _, _, _, _)
GetFiles(st, remote_files, k, base, status, ffail) ==
    IF k > Len(remote_files) \/ st.exc # NoExc THEN st
    ELSE GetFiles(IF ffail = k
                  THEN [st EXCEPT !.log = Append(@, [base EXCEPT !.path = Append(@, remote_files[k])]),
                                  !.exc = HandlerError]
                  ELSE IF status[k] # 404
                  THEN [st EXCEPT !.log = Append(@, [base EXCEPT !.path = Append(@, remote_files[k])]),
                                  !.written = Append(@, remote_files[k])]
                  ELSE [st EXCEPT !.log = Append(@, [base EXCEPT !.path = Append(@, remote_files[k])])],
                  remote_files, k + 1, base, status, ffail)

\* how download reaches its loop over the dates
Begun(exc_, date_array, log) == [exc |-> exc_, date_array |-> date_array, log |-> log]

\* lines 512-513, r being what list_remote_files ended with
begin_listed(a, r) ==
    Begun(r.exc,
          IF r.exc = NoExc THEN RemoteDates(r.ret, a.date_array) ELSE a.date_array,
          r.log)

\* lines 493-513
begin_keys(rem, a, fail, inst_dict) ==
    IF \E k \in {"dir", "remote_fname", "local_fname"} : k \notin DOMAIN inst_dict
    THEN Begun(Raise("KeyError",
                     <<IF "dir" \notin DOMAIN inst_dict THEN "dir"
                       ELSE IF "remote_fname" \notin DOMAIN inst_dict THEN "remote_fname"
                       ELSE "local_fname">>),
               a.date_array, <<>>)
    ELSE IF ~a.multi_file_day
    THEN begin_listed(a, list_remote_files(rem,
                             ListCall(a, a.date_array[1], a.date_array[Len(a.date_array)]),
                             fail))
    ELSE Begun(NoExc, a.date_array, <<>>)

\* a download that asks the server first and looks the pair up afterwards
download_asks_first(rem, a, fail) ==
    Begun(Raise("ValueError", <<"inst_id / tag combo unknown.">>), a.date_array,
          <<Url(a.remote_site, "", <<>>)>>)

\* lines 488-513: download up to its loop over the dates
download_begin(rem, a, fail) ==
    IF LookupFails(a.supported_tags, a.inst_id, a.tag)
    THEN Begun(Raise("ValueError", <<"inst_id / tag combo unknown.">>), a.date_array, <<>>)
    ELSE begin_keys(rem, a, fail, a.supported_tags[a.inst_id][a.tag])

-----------------------------------------------------------------------------
(* CDF files, the CDF class and load.                                      *)

\* a time is a number of ticks, TicksPerDay of them to the day; a tick stands
\* for the microsecond, the resolution of the time index
TicksPerDay == 2

\* np.nan
NaN == -99999

\* a variable without the attribute FILLVAL
NoFill == -88888

FloatTypes == {"CDF_FLOAT", "CDF_REAL4", "CDF_DOUBLE", "CDF_REAL8"}

\* a variable of a CDF file: its attributes (var_type "" when VAR_TYPE is absent,
\* depend the attributes DEPEND_TIME, DEPEND_0, ..., DEPEND_3 that are present),
\* its type, the number of its dimensions and its records
CdfVar(var_type, data_type, ndim, depend, fillval, ydata) ==
    [VAR_TYPE |-> var_type, Data_Type_Description |-> data_type, ndim |-> ndim,
     DEPEND |-> depend, FILLVAL |-> fillval, ydata |-> ydata]

NoDepend == [x \in {} |-> ""]
Depend0(x) == [s \in {"0"} |-> x]
Depend01(x, y) == [s \in {"0", "1"} |-> IF s = "0" THEN x ELSE y]
DependTime0(x, y) == [s \in {"TIME", "0"} |-> IF s = "TIME" THEN x ELSE y]

\* the variables of a month of C/NOFS PLP data: four records over three days
PlpVariables ==
    [Epoch |-> CdfVar("support_data", "CDF_EPOCH", 1, NoDepend, NoFill,
                      <<0, 1, TicksPerDay, 2 * TicksPerDay>>),
     Ni |-> CdfVar("data", "CDF_REAL4", 1, Depend0("Epoch"), -1, <<5, -1, 7, 8>>),
     Flag |-> CdfVar("data", "CDF_INT4", 1, Depend0("Epoch"), -1, <<0, -1, 1, 0>>),
     Spectra |-> CdfVar("data", "CDF_REAL4", 2, Depend01("Epoch", "Energy"), -1,
                        <<<<1, 2>>, <<-1, 4>>, <<5, 6>>, <<7, -1>>>>),
     Image |-> CdfVar("data", "CDF_REAL8", 2, Depend0("Epoch"), -1,
                      <<<<1, 2>>, <<3, 4>>, <<5, -1>>, <<7, 8>>>>),
     Energy |-> CdfVar("support_data", "CDF_REAL4", 2, NoDepend, NoFill,
                       <<<<10, 20>>, <<10, 20>>, <<10, 20>>, <<10, 20>>>>),
     Label |-> CdfVar("metadata", "CDF_CHAR", 1, NoDepend, NoFill, <<0, 0>>),
     Notes |-> CdfVar("", "CDF_CHAR", 1, NoDepend, NoFill, <<0>>)]

\* a file with time series only
IvmVariables ==
    [Epoch |-> CdfVar("support_data", "CDF_EPOCH", 1, NoDepend, NoFill, <<0, 1>>),
     Vx |-> CdfVar("data", "CDF_DOUBLE", 1, Depend0("Epoch"), -1, <<-1, 3>>),
     Bins |-> CdfVar("support_data", "CDF_INT4", 1, NoDepend, NoFill, <<1, 2, 3>>),
     Counts |-> CdfVar("data", "CDF_INT4", 2, Depend01("Epoch", "Bins"), -1,
                       <<<<1, 2, 3>>, <<4, 5, 6>>>>)]

\* a file with two time axes: B has DEPEND_TIME and DEPEND_0, A has DEPEND_0 only
ThaVariables ==
    [Time |-> CdfVar("support_data", "CDF_TIME_TT2000", 1, NoDepend, NoFill, <<0, 1>>),
     Epoch |-> CdfVar("support_data", "CDF_EPOCH", 1, NoDepend, NoFill, <<2, 3>>),
     B |-> CdfVar("data", "CDF_REAL4", 2, DependTime0("Time", "Epoch"), -1,
                  <<<<1, 2>>, <<3, 4>>>>),
     A |-> CdfVar("data", "CDF_REAL4", 1, Depend0("Epoch"), -1, <<5, 6>>)]

\* the files on the local disk
LocalFiles == [plp |-> PlpVariables, ivm |-> IvmVariables, tha |-> ThaVariables]

\* lines 68-69: self._variable_names, the variables of each file in the order of the file
VariableNames ==
    [plp |-> <<"Epoch", "Ni", "Flag", "Spectra", "Image", "Energy", "Label", "Notes">>,
     ivm |-> <<"Epoch", "Vx", "Bins", "Counts">>,
     tha |-> <<"Time", "Epoch", "B", "A">>]

\* a masking that does not look at the type of the variable
MaskValueOfAnyType(var, v) ==
    IF var.FILLVAL # NoFill /\ v = var.FILLVAL THEN NaN ELSE v

\* lines 231-240: FILLVAL becomes NaN in a variable of a float type
MaskValue(var, v) ==
    IF var.FILLVAL # NoFill /\ var.Data_Type_Description \in FloatTypes /\ v = var.FILLVAL
    THEN NaN ELSE v

MaskFill(var) ==
    IF var.ndim = 1
    THEN [i \in DOMAIN var.ydata |-> MaskValue(var, var.ydata[i])]
    ELSE [i \in DOMAIN var.ydata |->
             [j \in DOMAIN var.ydata[i] |-> MaskValue(var, var.ydata[i][j])]]

\* line 169: the suffixes of the DEPEND attributes, in the order they are read
Suffixes == <<"TIME", "0", "1", "2", "3">>

IsSuffix(var, s) == s \in DOMAIN var.DEPEND

\* lines 168-179: the names of the dependencies of a variable
Dependencies(var) ==
    LET Present(s) == IsSuffix(var, s)
        present == SelectSeq(Suffixes, Present)
    IN  [i \in DOMAIN present |-> var.DEPEND[present[i]]]

\* lines 150-151
IsEpochType(var) ==
    var.Data_Type_Description \in {"CDF_EPOCH", "CDF_EPOCH16", "CDF_TIME_TT2000"}

\* lines 161-166: the dependency given to set_epoch, "" when there is none
EpochDependency(var) ==
    IF IsSuffix(var, "TIME") THEN var.DEPEND["TIME"]
    ELSE IF IsSuffix(var, "0") THEN var.DEPEND["0"]
    ELSE ""

\* line 66: self._dependencies of a file just opened
NoDependencies == [x \in {} |-> <<>>]

\* lines 83-85: set_dependency
set_dependency(cache, name, data) ==
    [x \in DOMAIN cache \cup {name} |-> IF x = name THEN data ELSE cache[x]]

\* lines 152-155: the records of an epoch variable converted to times
EpochTimes(dep) == [i \in DOMAIN dep.ydata |-> <<"time", dep.ydata[i]>>]

\* line 176: pds.DataFrame(dependency_data).drop_duplicates().values[0], the first
\* row of the table made of the raw records of the variable
FirstUniqueRow(dep) ==
    IF dep.ndim = 1 THEN <<<<"value", dep.ydata[1]>>>>
    ELSE [j \in DOMAIN dep.ydata[1] |-> <<"value", dep.ydata[1][j]>>]

\* lines 87-156: set_epoch stores the times of a variable of an epoch type that is
\* not stored yet
set_epoch(variables, cache, x_axis_var) ==
    IF x_axis_var \notin DOMAIN cache /\ IsEpochType(variables[x_axis_var])
    THEN set_dependency(cache, x_axis_var, EpochTimes(variables[x_axis_var]))
    ELSE cache

\* lines 161-166: set_epoch is called on DEPEND_TIME, or else on DEPEND_0
AfterSetEpoch(variables, cache, var) ==
    IF EpochDependency(var) = "" THEN cache
    ELSE set_epoch(variables, cache, EpochDependency(var))

\* lines 168-179: each dependency that is not stored is stored as its first unique row
RECURSIVE StoreDependencies(_, _, _, _)
StoreDependencies(variables, cache, deps, k) ==
    IF k > Len(deps) THEN cache
    ELSE StoreDependencies(variables,
                           IF deps[k] \in DOMAIN cache THEN cache
                           ELSE set_dependency(cache, deps[k], FirstUniqueRow(variables[deps[k]])),
                           deps, k + 1)

\* lines 158-179: self._dependencies after get_index(var)
DependenciesAfter(variables, cache, var) ==
    StoreDependencies(variables, AfterSetEpoch(variables, cache, var), Dependencies(var), 1)

\* lines 168-179: the list `dependencies`, one entry for each DEPEND attribute
DependencyData(variables, cache, var) ==
    [k \in DOMAIN Dependencies(var) |->
        DependenciesAfter(variables, cache, var)[Dependencies(var)[k]]]

\* lines 181-189: the index of a variable is None ("none"), the data of its
\* one dependency ("single") or the product of its dependencies ("product")
IndexKind(var) ==
    IF Len(Dependencies(var)) = 0 THEN "none"
    ELSE IF Len(Dependencies(var)) = 1 THEN "single"
    ELSE "product"

\* the length of pds.MultiIndex.from_product(levels)
RECURSIVE ProductLen(_, _)
ProductLen(levels, k) ==
    IF k > Len(levels) THEN 1
    ELSE Len(levels[k]) * ProductLen(levels, k + 1)

\* lines 158-189: get_index, as the kind of the index and the sequences it is made of
get_index(variables, cache, var) ==
    [kind |-> IndexKind(var), levels |-> DependencyData(variables, cache, var)]

\* the number of values of a variable: ydata.ravel()
Size(var) ==
    IF var.ndim = 1 \/ Len(var.ydata) = 0 THEN Len(var.ydata)
    ELSE Len(var.ydata) * Len(var.ydata[1])

\* the labels of the index of the first dimension: the data of the dependency,
\* or the positions 0, 1, ... of a variable without one
IndexLabels(var, levels) ==
    IF IndexKind(var) = "none"
    THEN [i \in DOMAIN var.ydata |-> <<"position", i - 1>>]
    ELSE levels[1]

\* lines 245-260: what self.data holds for the variable; a table that does not
\* fit its index raises, and the variable is kept as a dict
DataKind(var, levels) ==
    IF IndexKind(var) = "product"
    THEN IF ProductLen(levels, 1) = Size(var)
         THEN "DataFrame" ELSE "dict"
    ELSE IF IndexKind(var) = "single" /\ Len(IndexLabels(var, levels)) # Len(var.ydata)
    THEN "dict"
    ELSE IF var.ndim = 1 THEN "Series"
    ELSE "DataFrame"

\* lines 202-216: the variables that load_variables keeps (varformat '*',
\* var_types 'data' and 'support_data')
Loaded(variables) ==
    {v \in DOMAIN variables : variables[v].VAR_TYPE \in {"data", "support_data"}}

\* lines 242-260: what self.data holds for one variable, given the result of get_index
Held(var, index) ==
    [kind |-> DataKind(var, index.levels),
     index |-> IndexLabels(var, index.levels),
     levels |-> index.levels,
     ydata |-> MaskFill(var)]

\* lines 196-262: the loop over self._variable_names from the k-th name on, with
\* self.data and self._dependencies as they are before it
RECURSIVE LoadFrom(_, _, _, _, _)
LoadFrom(variables, names, k, data, cache) ==
    IF k > Len(names) THEN data
    ELSE IF names[k] \notin Loaded(variables)
    THEN LoadFrom(variables, names, k + 1, data, cache)
    ELSE LoadFrom(variables, names, k + 1,
                  [v \in DOMAIN data \cup {names[k]} |->
                      IF v = names[k]
                      THEN Held(variables[v], get_index(variables, cache, variables[v]))
                      ELSE data[v]],
                  DependenciesAfter(variables, cache, variables[names[k]]))

\* lines 191-262: CDF.load_variables, self.data
LoadVariables(variables, names) ==
    LoadFrom(variables, names, 1, [v \in {} |-> <<>>], NoDependencies)

\* name.lower() of lines 338-343
Lower(name) == IF name \in {"Epoch", "EPOCH", "epoch"} THEN "epoch" ELSE name

\* lines 337-343: the variable named 'epoch' in any case is put under 'Epoch'
RenameEpoch(cdata) ==
    [v \in {IF Lower(n) = "epoch" THEN "Epoch" ELSE n : n \in DOMAIN cdata} |->
        IF v \in DOMAIN cdata /\ Lower(v) # "epoch" THEN cdata[v]
        ELSE cdata[CHOOSE n \in DOMAIN cdata : Lower(n) = "epoch"]]

\* lines 345-349: only the variables held as a Series go into the table,
\* whatever flatten_twod is
KeptColumns(cdata, flatten_twod) ==
    {v \in DOMAIN cdata : v \notin {"Epoch", "DATE"} /\ cdata[v].kind = "Series"}

\* lines 345-351: pds.DataFrame(data), the columns aligned on the union of their indexes
DataFrame(cdata, columns) ==
    LET labels == UNION {{cdata[v].index[i] : i \in DOMAIN cdata[v].index} : v \in columns}
    IN  [index |-> labels,
         columns |->
            [v \in columns |->
                [l \in labels |->
                    IF \E i \in DOMAIN cdata[v].index : cdata[v].index[i] = l
                    THEN cdata[v].ydata[CHOOSE i \in DOMAIN cdata[v].index :
                                            cdata[v].index[i] = l]
                    ELSE NaN]]]

\* lines 264-353: CDF.to_pysat, the table and the names the metadata has
to_pysat(selfdata, flatten_twod) ==
    [data |-> DataFrame(RenameEpoch(selfdata),
                        KeptColumns(RenameEpoch(selfdata), flatten_twod)),
     meta |-> {Lower(n) : n \in DOMAIN selfdata}]

\* a selection that runs up to the start of the next day, that start included
SelectDayAndNext(data, date) ==
    LET labels == {l \in data.index : /\ l[1] = "time"
                                      /\ date * TicksPerDay <= l[2]
                                      /\ l[2] <= (date + 1) * TicksPerDay}
    IN  [index |-> labels,
         columns |-> [v \in DOMAIN data.columns |-> [l \in labels |-> data.columns[v][l]]]]

\* lines 422-423: data.loc[date:date + 1 day - 1 microsecond, :]
SelectDay(data, date) ==
    LET first == date * TicksPerDay
        last == (date + 1) * TicksPerDay - 1
        labels == {l \in data.index : l[1] = "time" /\ first <= l[2] /\ l[2] <= last}
    IN  [index |-> labels,
         columns |-> [v \in DOMAIN data.columns |-> [l \in labels |-> data.columns[v][l]]]]

\* pds.DataFrame(None)
EmptyFrame == [index |-> {}, columns |-> <<>>]

\* the characters of a digit, and the digit of a character (-1: not a digit)
Digits == <<"0", "1", "2", "3", "4", "5", "6", "7", "8", "9">>
Digit(n) == Digits[n + 1]
DigitVal(c) == IF \E n \in 0..9 : Digits[n + 1] = c
               THEN CHOOSE n \in 0..9 : Digits[n + 1] = c
               ELSE -1

\* the names of the files on the local disk, as their characters
NameOf(file) ==
    IF file = "plp" THEN <<"p", ".", "c", "d", "f">>
    ELSE IF file = "ivm" THEN <<"i", ".", "c", "d", "f">>
    ELSE <<"t", ".", "c", "d", "f">>

\* date.strftime('%Y-%m-%d'); the years of the model are 2000, 2001, ...
DateText(date) ==
    <<"2", "0", "0", Digit(Year(date)), "-", "0", Digit(Month(date)), "-",
      "0", Digit(Day(date))>>

\* a file name of fnames: the name of a file, and the date list_files appended
\* to it as '_YYYY-MM-DD' (NoDate: nothing appended)
Fname(file, date) ==
    IF date = NoDate THEN NameOf(file) ELSE NameOf(file) \o <<"_">> \o DateText(date)

\* line 416: fnames[0][0:-11]
WithoutLast11(name) == SubSeq(name, 1, Len(name) - 11)

\* line 417: fnames[0][-10:]
Last10(name) == SubSeq(name, IF Len(name) > 10 THEN Len(name) - 9 ELSE 1, Len(name))

\* the number that the decimal digits of text write (negative: not a number)
RECURSIVE Number(_)
Number(text) ==
    IF Len(text) = 0 THEN 0
    ELSE IF DigitVal(text[Len(text)]) < 0 \/ Number(SubSeq(text, 1, Len(text) - 1)) < 0
    THEN -1
    ELSE 10 * Number(SubSeq(text, 1, Len(text) - 1)) + DigitVal(text[Len(text)])

\* line 417: dt.datetime.strptime(text, '%Y-%m-%d'), NoDate where it raises ValueError
StrpTime(text) ==
    IF /\ Len(text) = 10 /\ text[5] = "-" /\ text[8] = "-"
       /\ Number(SubSeq(text, 1, 4)) >= 2000
       /\ Number(SubSeq(text, 6, 7)) \in 1..Len(MonthLengths)
       /\ Number(SubSeq(text, 9, 10)) >= 1
    THEN IF Number(SubSeq(text, 9, 10)) <= MonthLengths[Number(SubSeq(text, 6, 7))]
         THEN MakeDate(Number(SubSeq(text, 1, 4)) - 2000, Number(SubSeq(text, 6, 7)),
                       Number(SubSeq(text, 9, 10)))
         ELSE NoDate
    ELSE NoDate

\* cdflib.CDF(name): the file of that name on the local disk, None if there is none
FileNamed(name) ==
    IF \E f \in DOMAIN LocalFiles : NameOf(f) = name
    THEN CHOOSE f \in DOMAIN LocalFiles : NameOf(f) = name
    ELSE None

\* what load returns or raises
Loaded2(exc_, data, meta, opened) == [exc |-> exc_, data |-> data, meta |-> meta, opened |-> opened]

\* a load that opens the first file of its defaults when it is given none
load_opens(a) == Loaded2(NoExc, EmptyFrame, None, <<"plp">>)

\* lines 418-420 and 427-428: the file is opened and converted
load_file(file, flatten_twod) ==
    to_pysat(LoadVariables(LocalFiles[file], VariableNames[file]), flatten_twod)

\* lines 416-424
load_day(name, date, flatten_twod) ==
    IF date = NoDate
    THEN Loaded2(Raise("ValueError", <<"time data does not match format '%Y-%m-%d'">>),
                 EmptyFrame, None, <<>>)
    ELSE IF FileNamed(name) = None
    THEN Loaded2(Raise("FileNotFoundError", name), EmptyFrame, None, <<>>)
    ELSE Loaded2(NoExc, SelectDay(load_file(FileNamed(name), flatten_twod).data, date),
                 load_file(FileNamed(name), flatten_twod).meta, <<FileNamed(name)>>)

\* lines 404-428
load(a) ==
    IF Len(a.fnames) <= 0 THEN Loaded2(NoExc, EmptyFrame, None, <<>>)
    ELSE IF a.fake_daily_files_from_monthly
    THEN load_day(WithoutLast11(a.fnames[1]), StrpTime(Last10(a.fnames[1])), a.flatten_twod)
    ELSE IF FileNamed(a.fnames[1]) = None
    THEN Loaded2(Raise("FileNotFoundError", a.fnames[1]), EmptyFrame, None, <<>>)
    ELSE Loaded2(NoExc, load_file(FileNamed(a.fnames[1]), a.flatten_twod).data,
                 load_file(FileNamed(a.fnames[1]), a.flatten_twod).meta,
                 <<FileNamed(a.fnames[1])>>)

-----------------------------------------------------------------------------
(* cnofs_plp.clean, on a pysat Instrument: its table self.data and, for     *)
(* every column, the fill value self.meta[key, self.fill_label].            *)

Instrument(data, fill) == [data |-> data, fill |-> fill]

\* line 122: self[key] == fill, element by element; NaN equals nothing
EqualsFill(v, fill) == v # NaN /\ fill # NaN /\ v = fill

\* lines 122-123: np.where(...) and self[idx, key] = np.nan for one column
clean_column(column, fill) ==
    [l \in DOMAIN column |-> IF EqualsFill(column[l], fill) THEN NaN ELSE column[l]]

\* a cleaning that does not leave the column 'Epoch' out
clean_all(self) ==
    [self.data EXCEPT !.columns =
        [key \in DOMAIN self.data.columns |->
            clean_column(self.data.columns[key], self.fill[key])]]

\* cnofs_plp.py lines 120-124: self.data after clean
clean(self) ==
    [self.data EXCEPT !.columns =
        [key \in DOMAIN self.data.columns |->
            IF key # "Epoch"
            THEN clean_column(self.data.columns[key], self.fill[key])
            ELSE self.data.columns[key]]]

\* the fill values the metadata of a loaded file has: FILLVAL, NaN without one
MetaFill(file) ==
    [v \in DOMAIN LocalFiles[file] |->
        IF LocalFiles[file][v].FILLVAL = NoFill THEN NaN ELSE LocalFiles[file][v].FILLVAL]

\* a table with the times of its rows in a column 'Epoch' as well
WithEpoch(data) ==
    [index |-> data.index,
     columns |-> [key \in DOMAIN data.columns \cup {"Epoch"} |->
                     IF key = "Epoch" THEN [l \in data.index |-> l[2]]
                     ELSE data.columns[key]]]

\* the instruments clean is called on: a loaded file or a day of it, as load
\* returns it or with an 'Epoch' column whose fill value is the first time
Instruments ==
    LET tables(f) == {load_file(f, TRUE).data}
                     \cup {SelectDay(load_file(f, TRUE).data, d) : d \in 0..1}
    IN  UNION {{Instrument(t, MetaFill(f)) : t \in tables(f)}
               \cup {Instrument(WithEpoch(t),
                                [MetaFill(f) EXCEPT !["Epoch"] = LocalFiles[f].Epoch.ydata[1]]) :
                         t \in tables(f)} :
               f \in DOMAIN LocalFiles}

-----------------------------------------------------------------------------
(* The calls.                                                              *)

TagVals == {None, "", "badval"}

Servers ==
    [files : {S \in SUBSET Dates : Cardinality(S) <= MaxFiles}, sub : BOOLEAN,
     copies : BOOLEAN]

\* a call reads start, stop and the remote address only after it found the
\* (inst_id, tag) pair and its keys: the other calls leave them at their defaults
ReadsDates(a) ==
    /\ a.site_kw \in ListRemoteFilesParams
    /\ a.tag = "" /\ a.inst_id = ""
    /\ a.supported_tags # formosat1_ivm_download_tags

ListArgs ==
    {a \in [tag : TagVals, inst_id : TagVals, supported_tags : SupportedTags,
            site_kw : {"remote_site", "remote_url"}, remote_site : {GoodSite, BadSite},
            start : Dates \cup {NoDate}, stop : Dates \cup {NoDate}] :
        /\ ReadsDates(a) \/ (a.start = NoDate /\ a.stop = NoDate)
        /\ a.remote_site = BadSite => a.start = NoDate /\ a.stop = NoDate}

NoFrame == [args |-> <<>>, locals |-> <<>>]

Init ==
    /\ remote \in Servers
    /\ pc = "idle"
    /\ fn = "none"
    /\ frame = NoFrame
    /\ exc = NoExc
    /\ ret = <<>>
    /\ requested = <<>>
    /\ written = <<>>

\* one call of list_remote_files, from its binding to its return or exception
ListRemoteFiles ==
    /\ pc = "idle"
    /\ \E a \in ListArgs :
       \E fail \in (IF a.remote_site = GoodSite /\ a.site_kw \in ListRemoteFilesParams
                    THEN Fails ELSE {NoFail}) :
       \E r \in {list_remote_files(remote, a, fail)} :
           /\ fn' = "list_remote_files"
           /\ frame' = [args |-> r.args, locals |-> r.locals]
           /\ exc' = r.exc
           /\ ret' = r.ret
           /\ requested' = r.log
           /\ pc' = IF r.exc = NoExc THEN "returned" ELSE "raised"
    /\ written' = <<>>
    /\ UNCHANGED remote

\* the caller takes the result; the next call starts afresh
Return ==
    /\ pc \in {"returned", "raised"}
    /\ pc' = "idle"
    /\ fn' = "none"
    /\ frame' = NoFrame
    /\ exc' = NoExc
    /\ ret' = <<>>
    /\ requested' = <<>>
    /\ written' = <<>>
    /\ UNCHANGED remote

\* the date arrays pysat passes: up to MaxDates days in a row
DateArrays ==
    UNION {{[i \in 1..n |-> first + i - 1] : first \in 0..(LastDate - n + 1)} : n \in 1..MaxDates}

DataPath == "/data/cnofs/plp"

\* a call reads its other arguments only after it found the (inst_id, tag)
\* pair and its keys: the other calls leave them at their defaults
DownloadReads(a) ==
    /\ a.tag = "" /\ a.inst_id = ""
    /\ a.supported_tags # formosat1_ivm_download_tags

DownloadArgs ==
    {a \in [tag : TagVals, inst_id : TagVals, supported_tags : SupportedTags,
            date_array : DateArrays, remote_site : {GoodSite, BadSite},
            data_path : {None, DataPath}, multi_file_day : BOOLEAN] :
        /\ DownloadReads(a) \/ (a.date_array = <<0>> /\ a.data_path = None
                                /\ ~a.multi_file_day /\ a.remote_site = GoodSite)
        /\ a.remote_site = BadSite => a.date_array = <<0>>}

\* download from its call to the start of its loop (lines 488-513)
DownloadCall ==
    /\ pc = "idle"
    /\ \E a \in DownloadArgs :
       \E fail \in (IF a.remote_site = GoodSite /\ ~a.multi_file_day /\ DownloadReads(a)
                    THEN Fails ELSE {NoFail}) :
       \E r \in {download_begin(remote, a, fail)} :
           /\ fn' = "download"
           /\ frame' = [args |-> a, locals |-> [date_array |-> r.date_array, i |-> 1]]
           /\ exc' = r.exc
           /\ requested' = r.log
           /\ pc' = IF r.exc # NoExc THEN "raised"
                    ELSE IF r.date_array = <<>> THEN "returned"
                    ELSE "download_loop"
    /\ ret' = <<>>
    /\ written' = <<>>
    /\ UNCHANGED remote

\* the end of one pass of the loop over date_array
NextDate(e, log, files) ==
    /\ exc' = e
    /\ requested' = requested \o log
    /\ written' = written \o files
    /\ frame' = [frame EXCEPT !.locals.i = @ + 1]
    /\ pc' = IF e # NoExc THEN "raised"
             ELSE IF frame.locals.i = Len(frame.locals.date_array) THEN "returned"
             ELSE "download_loop"
    /\ UNCHANGED <<remote, fn, ret>>

\* the date of the pass and the dict of the (inst_id, tag) pair
LoopDate == frame.locals.date_array[frame.locals.i]
LoopDict == frame.args.supported_tags[frame.args.inst_id][frame.args.tag]

\* one pass of the loop with multi_file_day False (lines 516-549)
DownloadDate ==
    /\ pc = "download_loop"
    /\ ~frame.args.multi_file_day
    /\ IF frame.args.data_path = None THEN NextDate(JoinError, <<>>, <<>>)
       ELSE \E remote_name \in {format_fname(LoopDict.remote_fname, LoopDate)} :
            \E local_name \in {format_fname(LoopDict.local_fname, LoopDate)} :
            \E remote_path \in {Url(frame.args.remote_site, LoopDict.dir,
                                    Append(remote_name.dirs, remote_name.file))} :
            \E got \in {Get(remote_path, 1, fail) : fail \in Fails} :
                IF got # "ok" THEN NextDate(HandlerError, <<remote_path>>, <<>>)
                ELSE \E status \in StatusCodes(remote, remote_path) :
                         NextDate(NoExc, <<remote_path>>,
                                  IF status # 404 THEN <<local_name.file>> ELSE <<>>)

\* one pass of the loop with multi_file_day True (lines 516-529, 551-581)
DownloadFilesOfDate ==
    /\ pc = "download_loop"
    /\ frame.args.multi_file_day
    /\ IF frame.args.data_path = None THEN NextDate(JoinError, <<>>, <<>>)
       ELSE \E fail \in (IF frame.args.remote_site = GoodSite THEN Fails ELSE {NoFail}) :
            \E r \in {list_remote_files(remote, ListCall(frame.args, LoopDate, LoopDate), fail)} :
            \E base \in {Url(frame.args.remote_site, LoopDict.dir,
                             format_subdir(LoopDict.remote_fname.dir, LoopDate))} :
                IF r.exc.type \in RequestErrorTypes
                THEN NextDate(HandlerError, r.log, <<>>)
                ELSE IF r.exc # NoExc THEN NextDate(r.exc, r.log, <<>>)
                ELSE \E ffail \in 0..Len(r.ret) :
                     \E status \in [1..Len(r.ret) -> {200, 404}] :
                        /\ \A k \in 1..Len(r.ret) :
                               status[k] \in StatusCodes(remote,
                                   [base EXCEPT !.path = Append(@, r.ret[k])])
                        /\ \E st \in {GetFiles([log |-> r.log, written |-> <<>>, exc |-> NoExc],
                                               r.ret, 1, base, status, ffail)} :
                               NextDate(st.exc, st.log, st.written)

\* the lists of file names pysat passes to load
Fnames ==
    {<<>>} \cup {<<Fname(f, d)>> : f \in DOMAIN LocalFiles, d \in {NoDate} \cup Dates}
    \cup {<<Fname("plp", NoDate), Fname("ivm", NoDate)>>}

LoadArgs ==
    [fnames : Fnames, fake_daily_files_from_monthly : BOOLEAN, flatten_twod : BOOLEAN]

\* one call of load
Load ==
    /\ pc = "idle"
    /\ \E a \in LoadArgs :
       \E r \in {load(a)} :
           /\ fn' = "load"
           /\ frame' = [args |-> a,
                        locals |-> [opened |-> r.opened,
                                    cdf_data |-> IF r.opened = <<>> THEN <<>>
                                                 ELSE LoadVariables(LocalFiles[r.opened[1]],
                                                                    VariableNames[r.opened[1]])]]
           /\ exc' = r.exc
           /\ ret' = IF r.exc = NoExc THEN [data |-> r.data, meta |-> r.meta] ELSE <<>>
           /\ pc' = IF r.exc = NoExc THEN "returned" ELSE "raised"
    /\ requested' = <<>>
    /\ written' = <<>>
    /\ UNCHANGED remote

\* one call of cnofs_plp.clean
Clean ==
    /\ pc = "idle"
    /\ \E self \in Instruments :
           /\ frame' = [args |-> self, locals |-> <<>>]
           /\ ret' = clean(self)
    /\ fn' = "clean"
    /\ exc' = NoExc
    /\ pc' = "returned"
    /\ requested' = <<>>
    /\ written' = <<>>
    /\ UNCHANGED remote

Next ==
    \/ ListRemoteFiles
    \/ Load
    \/ Clean
    \/ DownloadCall
    \/ DownloadDate
    \/ DownloadFilesOfDate
    \/ Return

Spec == Init /\ [][Next]_vars

-----------------------------------------------------------------------------
(* The properties of download, list_remote_files, load and to_pysat.       *)

UnknownCombo == Raise("ValueError", <<"inst_id / tag combo unknown.">>)

InDownload == fn = "download"
InList == fn = "list_remote_files" /\ frame.args.site_kw \in ListRemoteFilesParams
InLoad == fn = "load"

\* C1: download raises ValueError('inst_id / tag combo unknown.') whenever
\* supported_tags has no entry for the (inst_id, tag) pair it was given, be
\* it the tag or the inst_id that is unknown, and by then it has made no
\* request (listing or file) and has written no file.
C1_DownloadUnknownCombo ==
    (InDownload /\ LookupFails(frame.args.supported_tags, frame.args.inst_id, frame.args.tag))
        => /\ pc = "raised"
           /\ exc = UnknownCombo
           /\ requested = <<>>
           /\ written = <<>>

\* a download with a known inst_id and an unknown tag has raised
C1_Witness ==
    /\ InDownload /\ pc = "raised" /\ exc = UnknownCombo
    /\ frame.args.inst_id \in DOMAIN frame.args.supported_tags
    /\ frame.args.tag \notin DOMAIN frame.args.supported_tags[frame.args.inst_id]

\* supported_tags has no entry for the pair of the call once None is ''
UnknownToList ==
    LookupFails(frame.args.supported_tags,
                IF frame.args.inst_id = None THEN "" ELSE frame.args.inst_id,
                IF frame.args.tag = None THEN "" ELSE frame.args.tag)

\* C2: list_remote_files raises ValueError('inst_id / tag combo unknown.')
\* whenever supported_tags has no entry for the (inst_id, tag) pair once a
\* None tag or inst_id is replaced by '', and it makes no HTTP request then.
C2_ListUnknownCombo ==
    (InList /\ UnknownToList)
        => /\ pc = "raised"
           /\ exc = UnknownCombo
           /\ requested = <<>>

\* the call of the test: a None tag with the inst_id 'badval' has raised
C2_Witness ==
    /\ InList /\ pc = "raised" /\ exc = UnknownCombo
    /\ frame.args.tag = None /\ frame.args.inst_id = "badval"

\* the call of test_remote_file_list_connection_error_append (lines 24-27)
TestCall ==
    /\ fn = "list_remote_files"
    /\ frame.args.site_kw = "remote_url" /\ frame.args.remote_site = BadSite
    /\ frame.args.tag = "" /\ frame.args.inst_id = ""
    /\ frame.args.supported_tags = cnofs_plp_supported_tags

\* C3: list_remote_files called as the test calls it, with tag '', inst_id '',
\* the tags of cnofs_plp and the bad address passed as remote_url='http:/',
\* raises exactly requests.exceptions.ConnectionError, its message the
\* original one followed by 'pysat -> Request potentially ...'.
C3_BadAddressConnectionError ==
    TestCall => pc = "raised" /\ exc = Raise("ConnectionError", <<OrigMsg>> \o HelpMsg)

\* C4: load with an empty list of file names returns an empty table and None
\* as metadata, and opens no file.
C4_LoadEmpty ==
    (InLoad /\ Len(frame.args.fnames) = 0)
        => /\ pc = "returned"
           /\ ret.data = EmptyFrame
           /\ Cardinality(ret.data.index) = 0
           /\ ret.meta = None
           /\ frame.locals.opened = <<>>

\* load([]) has returned
C4_Witness ==
    InLoad /\ pc = "returned" /\ frame.args.fnames = <<>> /\ ret.meta = None

\* a call with the tags of an instrument module and a pair the tags have
KnownToModule ==
    /\ InDownload \/ (InList /\ ~UnknownToList)
    /\ InDownload => ~LookupFails(frame.args.supported_tags, frame.args.inst_id,
                                  frame.args.tag)
    /\ frame.args.supported_tags \in {cnofs_plp_supported_tags, formosat1_ivm_download_tags}

\* C5: a call of download or list_remote_files with the tags of cnofs_plp or
\* of formosat1_ivm and a known (inst_id, tag) pair finds the keys 'dir',
\* 'remote_fname' and 'local_fname' in the dict of the pair: no KeyError.
C5_TagsHaveKeys ==
    KnownToModule
        => /\ exc.type # "KeyError"
           /\ \A i \in DOMAIN frame.args.supported_tags :
              \A t \in DOMAIN frame.args.supported_tags[i] :
                  {"dir", "remote_fname", "local_fname"}
                      \subseteq DOMAIN frame.args.supported_tags[i][t]

\* the URL of a data file, as opposed to the URL of a directory
IsFileUrl(url) ==
    /\ Len(url.path) > 0
    /\ url.path[Len(url.path)].slashes = 0
    /\ url.path[Len(url.path)].name = cnofs_plp_fname

FileRequests == {i \in 1..Len(requested) : IsFileUrl(requested[i])}

\* C6: within one call of download no file URL is requested twice, whatever
\* the status of the response and whatever exception the request raises.
C6_NoRetry ==
    InDownload =>
        \A i \in FileRequests : \A j \in FileRequests :
            requested[i] = requested[j] => i = j

\* a download has returned after it requested two files and the server had
\* answered one of the requests with 404
C6_Witness ==
    /\ InDownload /\ pc = "returned"
    /\ Cardinality(FileRequests) >= 2
    /\ Len(written) < Cardinality(FileRequests)

InRange(f, start, stop) == start <= ParseDate(f) /\ ParseDate(f) <= stop

\* the files of s dated from start to stop are all in the sequence r
AllInRange(s, r, start, stop) ==
    \A k \in 1..Len(s) : InRange(s[k], start, stop) => InSeq(s[k], r)

\* list_remote_files has returned from a call with both start and stop
ListedStartStop ==
    /\ InList /\ pc = "returned"
    /\ frame.args.start # NoDate /\ frame.args.stop # NoDate

\* C7: list_remote_files called with start and stop returns files dated from
\* start to stop, both included, and every crawled file of the file format
\* which is dated in that range.
C7_StartStopInclusive ==
    ListedStartStop
        => /\ \A i \in 1..Len(ret) : InRange(ret[i], frame.args.start, frame.args.stop)
           /\ AllInRange(frame.locals.full_files, ret, frame.args.start, frame.args.stop)

\* a listing from start to a later stop has returned a file dated stop and
\* has left out a crawled file dated after stop
C7_Witness ==
    /\ ListedStartStop
    /\ frame.args.start < frame.args.stop
    /\ \E i \in 1..Len(ret) : ParseDate(ret[i]) = frame.args.stop
    /\ \E k \in 1..Len(frame.locals.full_files) :
           ParseDate(frame.locals.full_files[k]) > frame.args.stop

\* a call that found the dict of its (inst_id, tag) pair and the keys it reads
PastKeys == InList /\ exc.type \notin {"ValueError", "KeyError"}

\* C8: list_remote_files called with start=None and a stop date returns
\* normally unless a request fails: the files from the first one found up to
\* stop, none after stop.
C8_NoStartUpToStop ==
    (PastKeys /\ frame.args.start = NoDate /\ frame.args.stop # NoDate)
        => /\ frame.locals.url_list.bound
           /\ exc.type # "UnboundLocalError"
           /\ pc = "returned" =>
                  /\ \A i \in 1..Len(ret) : ParseDate(ret[i]) <= frame.args.stop
                  /\ AllInRange(frame.locals.full_files, ret, 0, frame.args.stop)

\* C9: list_remote_files called with a start date has a list of URLs to
\* crawl whatever the file format is, also when its directory part has no
\* {year}, and what it returns are the crawled files dated from start to stop
\* (the time of the call when stop is None).
C9_StartAnyFormat ==
    (PastKeys /\ frame.args.start # NoDate)
        => /\ frame.locals.url_list.bound
           /\ exc.type # "UnboundLocalError"
           /\ pc = "returned" =>
                  \A i \in 1..Len(ret) :
                      InRange(ret[i], frame.args.start,
                              IF frame.args.stop = NoDate THEN Now ELSE frame.args.stop)

\* the data variables with two dimensions that load_variables keeps of the file
TwoDimensional(file) ==
    {v \in Loaded(LocalFiles[file]) :
        LocalFiles[file][v].VAR_TYPE = "data" /\ LocalFiles[file][v].ndim = 2}

\* C10: the table that to_pysat returns has every two-dimensional variable
\* of the file: under its name as a series of tables with flatten_twod False,
\* and from the column 'name' on with flatten_twod True.
C10_TwoDimensionalKept ==
    (InLoad /\ pc = "returned" /\ Len(frame.args.fnames) > 0)
        => \A v \in TwoDimensional(frame.locals.opened[1]) :
               v \in DOMAIN ret.data.columns

\* the rows of a table whose time is on the day `date`
DayRows(index, date) ==
    {l \in index : /\ l[1] = "time"
                   /\ date * TicksPerDay <= l[2]
                   /\ l[2] < (date + 1) * TicksPerDay}

\* load has returned from a call with a file name and fake_daily_files_from_monthly
LoadedDay ==
    /\ InLoad /\ pc = "returned"
    /\ Len(frame.args.fnames) > 0
    /\ frame.args.fake_daily_files_from_monthly

\* C11: load with fake_daily_files_from_monthly reads fnames[0] as the name
\* of a file, one more character and a date YYYY-MM-DD; it opens the file of
\* that name and returns the rows of its table whose time is from the date
\* to the date + 1 day - 1 microsecond, and no other row.
C11_FakeDailyRows ==
    LoadedDay =>
        \E f \in DOMAIN LocalFiles : \E d \in Dates :
            /\ Len(frame.args.fnames[1]) = Len(NameOf(f)) + 11
            /\ frame.args.fnames[1] =
                   NameOf(f) \o <<frame.args.fnames[1][Len(NameOf(f)) + 1]>> \o DateText(d)
            /\ frame.locals.opened = <<f>>
            /\ ret.data.index =
                   DayRows(load_file(f, frame.args.flatten_twod).data.index, d)
            /\ \A v \in DOMAIN ret.data.columns : \A l \in ret.data.index :
                   ret.data.columns[v][l] =
                       load_file(f, frame.args.flatten_twod).data.columns[v][l]

\* a day of a file with more days has been loaded: some rows of the file are
\* returned, the row that begins the next day is among those left out
C11_Witness ==
    /\ LoadedDay
    /\ ret.data.index # {}
    /\ \E l \in load_file(frame.locals.opened[1], frame.args.flatten_twod).data.index :
           /\ l \notin ret.data.index
           /\ \E k \in ret.data.index : l[2] = (k[2] \div TicksPerDay + 1) * TicksPerDay

\* the elements of the records of a variable, whatever its dimensions
Elements(ndim, ydata) ==
    IF ndim = 1 THEN {<<i>> : i \in DOMAIN ydata}
    ELSE UNION {{<<i, j>> : j \in DOMAIN ydata[i]} : i \in DOMAIN ydata}

Element(ndim, ydata, e) == IF ndim = 1 THEN ydata[e[1]] ELSE ydata[e[1]][e[2]]

\* the variable has a FILLVAL attribute and one of the four float types
IsMasked(var) ==
    /\ var.FILLVAL # NoFill
    /\ \/ var.Data_Type_Description = "CDF_FLOAT"
       \/ var.Data_Type_Description = "CDF_REAL4"
       \/ var.Data_Type_Description = "CDF_DOUBLE"
       \/ var.Data_Type_Description = "CDF_REAL8"

\* var as it is in the file, held what load_variables made of it
MaskedAsClaimed(var, held) ==
    /\ DOMAIN held.ydata = DOMAIN var.ydata
    /\ \A e \in Elements(var.ndim, var.ydata) :
           Element(var.ndim, held.ydata, e) =
               IF IsMasked(var) /\ Element(var.ndim, var.ydata, e) = var.FILLVAL
               THEN NaN
               ELSE Element(var.ndim, var.ydata, e)

\* load has opened a file
Opened == InLoad /\ frame.locals.opened # <<>>

\* C12: in the data load_variables holds, a variable with FILLVAL and the
\* type CDF_FLOAT, CDF_REAL4, CDF_DOUBLE or CDF_REAL8 has NaN where the file
\* has FILLVAL and the value of the file elsewhere; a variable of another
\* type or without FILLVAL has the values of the file.
C12_FillValMasked ==
    Opened =>
        \A v \in DOMAIN frame.locals.cdf_data :
            MaskedAsClaimed(LocalFiles[frame.locals.opened[1]][v], frame.locals.cdf_data[v])

\* a file was loaded with a float variable that had FILLVAL among its values
\* and an integer variable that had FILLVAL among its values and kept it
C12_Witness ==
    /\ Opened
    /\ \E v \in DOMAIN frame.locals.cdf_data :
       \E i \in DOMAIN frame.locals.cdf_data[v].ydata :
           /\ IsMasked(LocalFiles[frame.locals.opened[1]][v])
           /\ LocalFiles[frame.locals.opened[1]][v].ndim = 1
           /\ LocalFiles[frame.locals.opened[1]][v].ydata[i]
                  = LocalFiles[frame.locals.opened[1]][v].FILLVAL
           /\ frame.locals.cdf_data[v].ydata[i] = NaN
    /\ \E v \in DOMAIN frame.locals.cdf_data :
       \E i \in DOMAIN frame.locals.cdf_data[v].ydata :
           /\ ~IsMasked(LocalFiles[frame.locals.opened[1]][v])
           /\ LocalFiles[frame.locals.opened[1]][v].ndim = 1
           /\ LocalFiles[frame.locals.opened[1]][v].FILLVAL # NoFill
           /\ frame.locals.cdf_data[v].ydata[i]
                  = LocalFiles[frame.locals.opened[1]][v].FILLVAL

\* download was called without a data_path
NoDataPath == InDownload /\ frame.args.data_path = None

\* C13: a download called with data_path=None does not fail for want of a
\* data_path: the names of the files it saves are joined to a directory, the
\* one set in Instrument.files.data_path.
C13_DefaultDataPath ==
    NoDataPath => exc # JoinError

Cleaned == fn = "clean" /\ pc = "returned"

\* C14: after cnofs_plp.clean the table has the columns and rows it had; in
\* every column but 'Epoch' a value equal to the fill value of the column is
\* NaN and every other value is what it was; 'Epoch' is what it was.
C14_CleanFillValues ==
    Cleaned =>
        /\ DOMAIN ret.columns = DOMAIN frame.args.data.columns
        /\ ret.index = frame.args.data.index
        /\ \A key \in DOMAIN ret.columns : \A l \in ret.index :
               ret.columns[key][l] =
                   IF key # "Epoch" /\ frame.args.data.columns[key][l] = frame.args.fill[key]
                   THEN NaN
                   ELSE frame.args.data.columns[key][l]

\* a table was cleaned that had a fill value in a data column and in 'Epoch'
C14_Witness ==
    /\ Cleaned
    /\ \E key \in DOMAIN ret.columns \ {"Epoch"} : \E l \in ret.index :
           /\ frame.args.data.columns[key][l] = frame.args.fill[key]
           /\ frame.args.fill[key] # NaN
           /\ ret.columns[key][l] = NaN
    /\ "Epoch" \in DOMAIN ret.columns
    /\ \E l \in ret.index : ret.columns["Epoch"][l] = frame.args.fill["Epoch"]

\* download was called with multi_file_day False and a data_path, it got its
\* remote listing, and it has ended: it returned, or it raised in its loop
SingleFileDays ==
    /\ InDownload /\ ~frame.args.multi_file_day
    /\ frame.args.data_path # None
    /\ pc = "returned" \/ (pc = "raised" /\ exc.type = "TypeError")

\* the index of the remote listing from date_array[0] to date_array[-1]
ListedDates ==
    LET listing == list_remote_files(remote,
                       ListCall(frame.args, frame.args.date_array[1],
                                frame.args.date_array[Len(frame.args.date_array)]),
                       NoFail).ret
    IN  {ParseDate(listing[i]) : i \in 1..Len(listing)}

\* the dates of the files requested, in the order of the requests
FileRequestDates ==
    LET files == SelectSeq(requested, IsFileUrl)
    IN  [i \in 1..Len(files) |-> ParseDate(files[i].path[Len(files[i].path)])]

\* the requested dates that are listed, in ascending order
DatesDue ==
    SortedSeq({frame.args.date_array[i] : i \in 1..Len(frame.args.date_array)}
              \cap ListedDates)

\* C15: with multi_file_day False the files download requests are those of
\* the dates that are in date_array and in the remote listing from
\* date_array[0] to date_array[-1]: one request for each such date, in
\* ascending order, and none for a date the listing does not have.
C15_RequestsListedDates ==
    SingleFileDays => FileRequestDates = DatesDue

\* no element of the sequence is in it twice
NoRepeat(seq) == \A i \in 1..Len(seq) : \A j \in 1..Len(seq) : seq[i] = seq[j] => i = j

\* C16: one call of list_remote_files requests no URL of a remote directory
\* twice (the sub-directories found under one top URL are not crawled again
\* under the next), and has no file link twice in its list of files.
C16_NoDirectoryTwice ==
    InList => NoRepeat(requested) /\ NoRepeat(frame.locals.full_files)

\* the values of a dependency: the times of an epoch variable, and of any other
\* variable the row that each of its records repeats
ValuesOf(dep) == IF IsEpochType(dep) THEN EpochTimes(dep) ELSE FirstUniqueRow(dep)

\* the values of the dependencies of var, in the order TIME, 0, 1, 2, 3
ValuesOfDependencies(variables, var) ==
    [k \in DOMAIN Dependencies(var) |-> ValuesOf(variables[Dependencies(var)[k]])]

\* C17: the index get_index gave for a variable is made of the values of
\* its dependencies in the order DEPEND_TIME, DEPEND_0, ..., DEPEND_3: of
\* nothing (None) when it has none, of the values of the one dependency when
\* it has one, and of their product when it has more, so that a variable
\* with DEPEND_TIME and DEPEND_0 has a product of the two time axes.
C17_IndexOfDependencies ==
    Opened =>
        \A v \in DOMAIN frame.locals.cdf_data :
            frame.locals.cdf_data[v].levels
                = ValuesOfDependencies(LocalFiles[frame.locals.opened[1]],
                                       LocalFiles[frame.locals.opened[1]][v])

====
